---- MODULE Spec2Model ----
(***************************************************************************)
(* Model of the Simple View / Full View synchronisation engine of          *)
(* codebotair.py (RobotControlApp and SimpleViewEditor).                   *)
(*                                                                         *)
(* A text is the sequence of its lines, text.split('\n'): the empty text   *)
(* is <<Blank>>, and a text ending in '\n' ends with a Blank line.  A line *)
(* is a record [k, p, v, c]:                                               *)
(*   k = "txt"    a literal line, c is its text                            *)
(*   k = "blank"  the empty line ''                                        *)
(*   k = "ws"     a line of spaces only (strip() empties it, '' it is not) *)
(*   k = "asg"    self.<p> = <v>: v is the sequence of characters the      *)
(*                pattern [\d.]+ captures (for colour_detection the string *)
(*                between the quotes, <<>> for ""), c is the text around   *)
(*                it: "hdr" as _generate_simple_code writes it, "usr" as a *)
(*                user writes it inside the logic                          *)
(*   k = "def"    '    def control_loop(self):'                            *)
(*   k = "sep"    '        # === Movement Logic ==='                       *)
(*   k = "mstart" '        # user control_loop logic below'                *)
(*   k = "mend"   '        # end user control_loop logic'                  *)
(* Numbers held by a spin box are integers in units of its last decimal    *)
(* place: hundredths for setDecimals(2), tenths for setDecimals(1).        *)
(***************************************************************************)
EXTENDS Integers, Sequences, FiniteSets, TLC

VARIABLES params, simple, full, file, other, mode, curfile, syncing, raised, last

vars == <<params, simple, full, file, other, mode, curfile, syncing, raised, last>>

(***************************************************************************)
(* Lines                                                                   *)
(***************************************************************************)
T(text) == [k |-> "txt", p |-> "", v |-> <<>>, c |-> text]

Blank == [k |-> "blank", p |-> "", v |-> <<>>, c |-> ""]

Ws == [k |-> "ws", p |-> "", v |-> <<>>, c |-> ""]

Asg(p, v, c) == [k |-> "asg", p |-> p, v |-> v, c |-> c]

DefLine == [k |-> "def", p |-> "", v |-> <<>>, c |-> "    def control_loop(self):"]

SepLine == [k |-> "sep", p |-> "", v |-> <<>>, c |-> "        # === Movement Logic ==="]

MarkerStart == [k |-> "mstart", p |-> "", v |-> <<>>, c |-> "        # user control_loop logic below"]

MarkerEnd == [k |-> "mend", p |-> "", v |-> <<>>, c |-> "        # end user control_loop logic"]

\* line.strip() == ''
IsBlankLine(line) == line.k \in {"blank", "ws"}

\* text.strip() == ''
IsBlankText(text) == \A i \in 1..Len(text) : IsBlankLine(text[i])

\* The least element of a set of indices, 0 when the set is empty
\* (str.find and re.search report the leftmost occurrence).
FirstOf(hits) ==
    IF hits = {} THEN 0 ELSE CHOOSE i \in hits : \A j \in hits : i <= j

\* while lines and not lines[-1].strip(): lines.pop()
RECURSIVE DropTrailingBlank(_)
DropTrailingBlank(text) ==
    IF Len(text) = 0 \/ ~IsBlankLine(text[Len(text)])
    THEN text
    ELSE DropTrailingBlank(SubSeq(text, 1, Len(text) - 1))

\* The lines of s.rstrip('\n'): trailing empty lines go, '' is left as <<Blank>>.
RECURSIVE RStripNewlines(_)
RStripNewlines(text) ==
    IF Len(text) <= 1 \/ text[Len(text)].k # "blank"
    THEN text
    ELSE RStripNewlines(SubSeq(text, 1, Len(text) - 1))

(***************************************************************************)
(* Parameters: the spin boxes and the combo box of the Robot Control tab   *)
(***************************************************************************)
ParamOrder ==
    << "forward_speed", "backward_speed", "turn_speed", "obstacle_distance",
       "turn_cw_deg", "turn_acw_deg", "colour_detection" >>

NumericParams ==
    { "forward_speed", "backward_speed", "turn_speed", "obstacle_distance",
      "turn_cw_deg", "turn_acw_deg" }

Colours == {"Red", "Blue", "Yellow", "Green"}

\* setDecimals
Decimals(p) == IF p \in {"turn_cw_deg", "turn_acw_deg"} THEN 1 ELSE 2

\* setRange, lower end, in units of the last decimal place
MinVal(p) ==
    CASE p \in {"forward_speed", "backward_speed"} -> 1
      [] p = "turn_speed" -> 10
      [] p = "obstacle_distance" -> 10
      [] OTHER -> 0

\* setRange, upper end, in units of the last decimal place
MaxVal(p) ==
    CASE p \in {"forward_speed", "backward_speed"} -> 200
      [] p = "turn_speed" -> 300
      [] p = "obstacle_distance" -> 200
      [] OTHER -> 3600

\* The values after _build_robot_control_tab: a QDoubleSpinBox starts at 0.0
\* and setRange clamps it; turn_cw and turn_acw are set to 90.0; the combo
\* box shows its first item.
DefaultParams ==
    [ forward_speed |-> 1, backward_speed |-> 1, turn_speed |-> 10,
      obstacle_distance |-> 10, turn_cw_deg |-> 900, turn_acw_deg |-> 900,
      colour_detection |-> "Red" ]

(***************************************************************************)
(* Numeric text: float(), QDoubleSpinBox.setValue, the :.2f / :.1f formats *)
(***************************************************************************)
DigitChars == <<"0", "1", "2", "3", "4", "5", "6", "7", "8", "9">>

IsDigit(ch) == \E d \in 1..10 : DigitChars[d] = ch

DigitVal(ch) == (CHOOSE d \in 1..10 : DigitChars[d] = ch) - 1

RECURSIVE Pow10(_)
Pow10(n) == IF n = 0 THEN 1 ELSE 10 * Pow10(n - 1)

CountDots(v) == Cardinality({i \in 1..Len(v) : v[i] = "."})

CountDigits(v) == Cardinality({i \in 1..Len(v) : IsDigit(v[i])})

\* The digits of v read as one integer, the dot skipped.
RECURSIVE Mantissa(_, _)
Mantissa(v, acc) ==
    IF Len(v) = 0 THEN acc
    ELSE IF IsDigit(Head(v)) THEN Mantissa(Tail(v), 10 * acc + DigitVal(Head(v)))
    ELSE Mantissa(Tail(v), acc)

\* The number of digits after the dot.
FracDigits(v) ==
    LET dot == FirstOf({i \in 1..Len(v) : v[i] = "."})
    IN  IF dot = 0 THEN 0 ELSE Len(v) - dot

\* float(text) for a text matched by [\d.]+ : it raises ValueError unless
\* the text holds at most one dot and at least one digit.
FloatOk(v) == CountDots(v) <= 1 /\ CountDigits(v) >= 1

\* A setValue of a box without a range: the value is rounded, never clamped.
SetValueUnclamped(p, v) ==
    LET m == Mantissa(v, 0)
        f == FracDigits(v)
        d == Decimals(p)
    IN  IF f <= d THEN m * Pow10(d - f)
        ELSE (m + (Pow10(f - d) \div 2)) \div Pow10(f - d)

\* A setValue that drops the digits after the dot (a box left at 0 decimals).
SetValueWhole(p, v) ==
    LET r == (Mantissa(v, 0) \div Pow10(FracDigits(v))) * Pow10(Decimals(p))
    IN  IF r < MinVal(p) THEN MinVal(p)
        ELSE IF r > MaxVal(p) THEN MaxVal(p)
        ELSE r

\* QDoubleSpinBox.setValue(float(v)) for parameter p: the value rounded to the
\* box's decimals and clamped into its range.
SetValue(p, v) ==
    LET m == Mantissa(v, 0)
        f == FracDigits(v)
        d == Decimals(p)
        r == IF f <= d THEN m * Pow10(d - f)
             ELSE (m + (Pow10(f - d) \div 2)) \div Pow10(f - d)
    IN  IF r < MinVal(p) THEN MinVal(p)
        ELSE IF r > MaxVal(p) THEN MaxVal(p)
        ELSE r

RECURSIVE IntChars(_)
IntChars(n) ==
    IF n < 10 THEN <<DigitChars[n + 1]>>
    ELSE IntChars(n \div 10) \o <<DigitChars[(n % 10) + 1]>>

\* n as exactly w digits, zero padded on the left.
RECURSIVE FracChars(_, _)
FracChars(n, w) ==
    IF w = 0 THEN <<>>
    ELSE FracChars(n \div 10, w - 1) \o <<DigitChars[(n % 10) + 1]>>

\* f'{value:.2f}' (or :.1f) of a spin box value.
FormatNum(p, x) ==
    LET u == Pow10(Decimals(p))
    IN  IntChars(x \div u) \o <<".">> \o FracChars(x % u, Decimals(p))

\* The text a replacement or the generator writes for parameter p.
FormatParam(P, p) ==
    IF p = "colour_detection" THEN <<P[p]>> ELSE FormatNum(p, P[p])

(***************************************************************************)
(* CodeGenerator: _generate_simple_code                                    *)
(***************************************************************************)
\* The lines up to and including the separator '# === Movement Logic ==='.
HeaderLines(P) ==
    << T("from codebotair import Robot"),
       Blank,
       T("class Movement(Robot):"),
       T("    def __init__(self):"),
       T("        super().__init__()"),
       T("        # === Editable Parameters ===") >>
    \o [i \in 1..7 |-> Asg(ParamOrder[i], FormatParam(P, ParamOrder[i]), "hdr")]
    \o << Blank,
          T("    # vvv Drag and drop functions below vvv"),
          Blank,
          DefLine,
          SepLine >>

\* The default logic template.
DefaultLogic ==
    << T("        if self.obstacle_in_front():"),
       T("            self.stop()                       # stop movement"),
       T("            self.turn_cw(self.turn_cw_deg)    # turn clockwise  <- edit"),
       T("        else:"),
       T("            self.move(self.forward_speed)     # drive forward  <- edit") >>

\* The text ends in '\n': its last line is empty.
generate_simple_code(P) == HeaderLines(P) \o DefaultLogic \o <<Blank>>

(***************************************************************************)
(* The patterns of the extractor and of the replacements                   *)
(***************************************************************************)
\* (self\.<p>\s*=\s*)[\d.]+ , for colour_detection (self\.<p>\s*=\s*")[^"]*"
SubMatches(line, p) ==
    /\ line.k = "asg"
    /\ line.p = p
    /\ (p = "colour_detection" \/ Len(line.v) >= 1)

\* self\.<p>\s*=\s*([\d.]+) , for colour_detection self\.<p>\s*=\s*"([^"]+)"
ExtMatches(line, p) ==
    /\ line.k = "asg"
    /\ line.p = p
    /\ Len(line.v) >= 1

\* A substitution that addresses the last match of parameter p.
ReplaceLast(text, P, p) ==
    LET hits == {j \in 1..Len(text) : SubMatches(text[j], p)}
    IN  IF hits = {} THEN text
        ELSE LET i == CHOOSE j \in hits : \A n \in hits : n <= j
             IN  [text EXCEPT ![i].v = FormatParam(P, p)]

\* re.sub without count=1: every match of parameter p is rewritten.
ReplaceEvery(text, P, p) ==
    [j \in 1..Len(text) |->
        IF SubMatches(text[j], p) THEN [text[j] EXCEPT !.v = FormatParam(P, p)]
        ELSE text[j]]

\* re.sub(pattern, repl, code, count=1) for parameter p.
ReplaceFirst(text, P, p) ==
    LET i == FirstOf({j \in 1..Len(text) : SubMatches(text[j], p)})
    IN  IF i = 0 THEN text ELSE [text EXCEPT ![i].v = FormatParam(P, p)]

\* for pattern, repl in replacements: code = re.sub(pattern, repl, code, count=1)
RECURSIVE replacements(_, _, _)
replacements(text, P, i) ==
    IF i > Len(ParamOrder) THEN text
    ELSE replacements(ReplaceFirst(text, P, ParamOrder[i]), P, i + 1)

\* An extractor without the test of the colour against the combo box items:
\* any matched string is stored.
RECURSIVE ExtractFromAnyColour(_, _, _)
ExtractFromAnyColour(text, P, i) ==
    IF i > Len(ParamOrder) THEN [params |-> P, raised |-> FALSE]
    ELSE
        LET p == ParamOrder[i]
            m == FirstOf({j \in 1..Len(text) : ExtMatches(text[j], p)})
        IN  IF m = 0 THEN ExtractFromAnyColour(text, P, i + 1)
            ELSE IF p = "colour_detection"
            THEN ExtractFromAnyColour(text, [P EXCEPT ![p] = text[m].v[1]], i + 1)
            ELSE IF ~FloatOk(text[m].v)
            THEN [params |-> P, raised |-> TRUE]
            ELSE ExtractFromAnyColour(text, [P EXCEPT ![p] = SetValue(p, text[m].v)], i + 1)

\* The body of the try block of _on_simple_code_changed from parameter i on:
\* the parameters after the pass and whether float() raised.
RECURSIVE ExtractFrom(_, _, _)
ExtractFrom(text, P, i) ==
    IF i > Len(ParamOrder) THEN [params |-> P, raised |-> FALSE]
    ELSE
        LET p == ParamOrder[i]
            m == FirstOf({j \in 1..Len(text) : ExtMatches(text[j], p)})
        IN  IF m = 0 THEN ExtractFrom(text, P, i + 1)
            ELSE IF p = "colour_detection"
            THEN IF text[m].v[1] \in Colours
                 THEN ExtractFrom(text, [P EXCEPT ![p] = text[m].v[1]], i + 1)
                 ELSE ExtractFrom(text, P, i + 1)
            ELSE IF ~FloatOk(text[m].v)
            THEN [params |-> P, raised |-> TRUE]
            ELSE ExtractFrom(text, [P EXCEPT ![p] = SetValue(p, text[m].v)], i + 1)

(***************************************************************************)
(* The application state as one record, and the handlers as functions of   *)
(* it.  file = NoFile: movement.py does not exist.                         *)
(***************************************************************************)
NoFile == <<>>

\* The return value None of _extract_simple_view_logic.
None == <<>>

Cur ==
    [ params |-> params, simple |-> simple, full |-> full, file |-> file,
      other |-> other, mode |-> mode, curfile |-> curfile,
      syncing |-> syncing, raised |-> raised ]

\* simple_editor.textChanged.  A setValue that changes a value emits
\* valueChanged, whose slot _sync_simple_view_from_spinboxes runs nested, while
\* _syncing is set; the finally clause clears the flag.
RECURSIVE sync_simple_view_from_spinboxes(_)
\* An extractor without the finally clause: an exception leaves the flag set.
on_simple_code_changed_no_finally(s) ==
    IF s.syncing THEN s
    ELSE LET r == ExtractFrom(s.simple, s.params, 1)
             a == [s EXCEPT !.syncing = TRUE, !.params = r.params]
             b == IF r.params # s.params THEN sync_simple_view_from_spinboxes(a) ELSE a
         IN  [b EXCEPT !.raised = r.raised, !.syncing = r.raised]

on_simple_code_changed(s) ==
    IF s.syncing THEN s
    ELSE LET r == ExtractFrom(s.simple, s.params, 1)
             a == [s EXCEPT !.syncing = TRUE, !.params = r.params]
             b == IF r.params # s.params THEN sync_simple_view_from_spinboxes(a) ELSE a
         IN  [b EXCEPT !.raised = r.raised, !.syncing = FALSE]

\* SimpleViewEditor._logic_start_line: the first line holding
\* 'def control_loop', 0 for None (lines are counted from 1 here, blocks
\* from 0 in the editor; the drop line is counted the same way).
logic_start_line(text) == FirstOf({i \in 1..Len(text) : text[i].k = "def"})

\* QPlainTextEdit.dropEvent with the pointer at the start of line t: the
\* snippet, which ends in '\n', goes in front of that line.
InsertAt(text, t, snippet) ==
    SubSeq(text, 1, t - 1) \o snippet \o SubSeq(text, t, Len(text))

\* A dropEvent that reports a refused drop by raising instead of ignoring it.
dropEventReportsRefusal(s, t, snippet) ==
    IF logic_start_line(s.simple) # 0 /\ t <= logic_start_line(s.simple)
    THEN [s EXCEPT !.raised = TRUE]
    ELSE on_simple_code_changed([s EXCEPT !.simple = InsertAt(s.simple, t, snippet)])

\* A dropEvent that compares with < : a drop on the sentinel line is accepted.
dropEventOnSentinel(s, t, snippet) ==
    IF logic_start_line(s.simple) # 0 /\ t < logic_start_line(s.simple)
    THEN s
    ELSE on_simple_code_changed([s EXCEPT !.simple = InsertAt(s.simple, t, snippet)])

\* SimpleViewEditor.dropEvent at line t; an accepted drop changes the text,
\* and textChanged runs the extractor.
dropEvent(s, t, snippet) ==
    IF logic_start_line(s.simple) # 0 /\ t <= logic_start_line(s.simple)
    THEN s
    ELSE on_simple_code_changed([s EXCEPT !.simple = InsertAt(s.simple, t, snippet)])

\* A slot of the parameter widgets without the test of _syncing.
sync_simple_view_unguarded(s) ==
    LET new_code == IF IsBlankText(s.simple) THEN generate_simple_code(s.params)
                    ELSE replacements(s.simple, s.params, 1)
        a == [s EXCEPT !.syncing = TRUE, !.simple = new_code]
        b == IF new_code # s.simple THEN on_simple_code_changed(a) ELSE a
    IN  [b EXCEPT !.syncing = FALSE]

\* valueChanged / currentTextChanged of a parameter widget.  A setPlainText
\* that changes the text emits textChanged, whose slot _on_simple_code_changed
\* runs nested, while _syncing is set; the finally clause clears the flag.
sync_simple_view_from_spinboxes(s) ==
    IF s.syncing THEN s
    ELSE LET new_code == IF IsBlankText(s.simple) THEN generate_simple_code(s.params)
                         ELSE replacements(s.simple, s.params, 1)
             a == [s EXCEPT !.syncing = TRUE, !.simple = new_code]
             b == IF new_code # s.simple THEN on_simple_code_changed(a) ELSE a
         IN  [b EXCEPT !.syncing = FALSE]

sync_full_view_from_spinboxes(s) ==
    IF IsBlankText(s.full) THEN s
    ELSE [s EXCEPT !.full = replacements(s.full, s.params, 1)]

\* An extractor that returns the empty string when nothing is left after the
\* separator: one empty line is then spliced between the markers.
extract_logic_keeps_empty(text) ==
    LET sep == FirstOf({i \in 1..Len(text) : text[i].k = "sep"})
        r == DropTrailingBlank(SubSeq(text, sep + 1, Len(text)))
    IN  IF sep = 0 THEN None
        ELSE IF r = <<>> THEN <<Blank>> ELSE r

\* The lines after the first separator line, trailing blank lines popped;
\* None without a separator or when nothing is left.
extract_simple_view_logic(text) ==
    LET sep == FirstOf({i \in 1..Len(text) : text[i].k = "sep"})
    IN  IF sep = 0 THEN None
        ELSE DropTrailingBlank(SubSeq(text, sep + 1, Len(text)))

\* code.find(marker_start): the marker line and the '\n' that ends it.
FindMarkerStart(code) ==
    FirstOf({i \in 1..(Len(code) - 1) : code[i].k = "mstart"})

\* code.find(marker_end)
FindMarkerEnd(code) ==
    FirstOf({i \in 1..Len(code) : code[i].k = "mend"})

\* A splice whose tail starts after the end marker line: the marker is lost.
SpliceLogicDropsEnd(code, logic) ==
    SubSeq(code, 1, FindMarkerStart(code)) \o logic
        \o SubSeq(code, FindMarkerEnd(code) + 1, Len(code))

\* code[:start_idx + len(marker_start)] + logic + '\n' + code[end_idx:]
SpliceLogic(code, logic) ==
    SubSeq(code, 1, FindMarkerStart(code)) \o logic
        \o SubSeq(code, FindMarkerEnd(code), Len(code))

\* A write of the logic that checks the start marker only and, without an
\* end marker, lets the logic end the file.
write_simple_logic_start_only(s, io) ==
    LET logic == extract_simple_view_logic(s.simple)
        new_code ==
            IF FindMarkerEnd(s.file) = 0
            THEN SubSeq(s.file, 1, FindMarkerStart(s.file)) \o logic \o <<Blank>>
            ELSE SpliceLogic(s.file, logic)
    IN  IF logic = None THEN s
        ELSE IF s.file = NoFile THEN s
        ELSE IF FindMarkerStart(s.file) = 0 THEN s
        ELSE IF new_code = s.file THEN s
        ELSE IF 2 \in io THEN [s EXCEPT !.raised = TRUE]
        ELSE [s EXCEPT !.file = new_code]

\* io: the writes of the running handler that fail, numbered in the order the
\* handler attempts them.  Here open(MOVEMENT_PY, 'w') is the second write of
\* its handler, and its failure is not caught.
write_simple_logic_to_movement_py(s, io) ==
    LET logic == extract_simple_view_logic(s.simple)
    IN  IF logic = None THEN s
        ELSE IF s.file = NoFile THEN s
        ELSE IF FindMarkerStart(s.file) = 0 \/ FindMarkerEnd(s.file) = 0 THEN s
        ELSE IF SpliceLogic(s.file, logic) = s.file THEN s
        ELSE IF 2 \in io THEN [s EXCEPT !.raised = TRUE]
        ELSE [s EXCEPT !.file = SpliceLogic(s.file, logic)]

\* A write of the parameters without the os.path.isfile check: open() raises
\* when movement.py is missing.
write_params_unguarded(s, io) ==
    IF s.file = NoFile \/ 1 \in io THEN [s EXCEPT !.raised = TRUE]
    ELSE [s EXCEPT !.file = replacements(s.file, s.params, 1)]

\* The first write of its handler; its failure is not caught.
write_params_to_movement_py(s, io) ==
    IF s.file = NoFile THEN s
    ELSE IF 1 \in io THEN [s EXCEPT !.raised = TRUE]
    ELSE [s EXCEPT !.file = replacements(s.file, s.params, 1)]

\* re.search(START \n (.*?) END, code, re.DOTALL): the leftmost start marker
\* that an end marker follows, 0 when there is no match.
SearchMarkers(code) ==
    FirstOf({i \in 1..(Len(code) - 1) :
                /\ code[i].k = "mstart"
                /\ \E j \in (i + 1)..Len(code) : code[j].k = "mend"})

\* A saved logic stripped with strip(): trailing lines of spaces go as well.
SavedLogicStripped(code) ==
    LET i == SearchMarkers(code)
        j == FirstOf({n \in (i + 1)..Len(code) : code[n].k = "mend"})
        r == DropTrailingBlank(SubSeq(code, i + 1, j - 1))
    IN  IF r = <<>> THEN <<Blank>> ELSE r

\* m.group(1).rstrip('\n')
SavedLogic(code) ==
    LET i == SearchMarkers(code)
        j == FirstOf({n \in (i + 1)..Len(code) : code[n].k = "mend"})
    IN  RStripNewlines(SubSeq(code, i + 1, j - 1) \o <<Blank>>)

\* lines[:logic_start] of the generated code, the saved logic, and '\n'.
RebuildSimpleView(P, saved_logic) ==
    LET lines == generate_simple_code(P)
        sep == FirstOf({i \in 1..Len(lines) : lines[i].k = "sep"})
    IN  SubSeq(lines, 1, sep) \o saved_logic \o <<Blank>>

load_simple_view_from_movement_py(s) ==
    IF s.file = NoFile
    THEN IF IsBlankText(s.simple)
         THEN [s EXCEPT !.simple = generate_simple_code(s.params), !.syncing = FALSE]
         ELSE s
    ELSE IF SearchMarkers(s.file) = 0
    THEN [s EXCEPT !.simple = generate_simple_code(s.params), !.syncing = FALSE]
    ELSE [s EXCEPT !.simple = RebuildSimpleView(s.params, SavedLogic(s.file)),
                   !.syncing = FALSE]

\* try: write the Full View text to the open file; except Exception: pass
save_full_view_file(s, io) ==
    IF s.curfile = "none" \/ 1 \in io THEN s
    ELSE IF s.curfile = "movement_pkg/movement.py"
    THEN [s EXCEPT !.file = s.full]
    ELSE [s EXCEPT !.other = s.full]

\* Both writes in a row, as every Simple View persistence trigger does; an
\* exception of the first write leaves the second undone.
PersistSimpleView(s, io) ==
    LET a == write_params_to_movement_py(s, io)
    IN  IF a.raised THEN a ELSE write_simple_logic_to_movement_py(a, io)

sync_simple_view_to_full_view(s, io) ==
    LET a == PersistSimpleView(s, io)
    IN  IF a.raised THEN a
        ELSE IF a.curfile = "movement_pkg/movement.py"
        THEN [a EXCEPT !.full = a.file]
        ELSE a

show_simple_view(s, io) ==
    LET a == IF s.mode = 1 THEN save_full_view_file(s, io) ELSE s
    IN  load_simple_view_from_movement_py([a EXCEPT !.mode = 0])

show_full_view(s, io) ==
    LET a == IF s.mode = 0 THEN sync_simple_view_to_full_view(s, io) ELSE s
    IN  IF a.raised THEN a
        ELSE IF a.curfile = "movement_pkg/movement.py"
        THEN sync_full_view_from_spinboxes([a EXCEPT !.mode = 1])
        ELSE [a EXCEPT !.mode = 1]

\* An autosave that, in the Simple View, reloads the view from movement.py
\* after writing.
autosave_then_reload(s, io) ==
    IF s.mode = 0
    THEN LET a == PersistSimpleView(s, io)
         IN  IF a.raised THEN a ELSE load_simple_view_from_movement_py(a)
    ELSE save_full_view_file(s, io)

autosave(s, io) ==
    IF s.mode = 0 THEN PersistSimpleView(s, io) ELSE save_full_view_file(s, io)

\* The Save button of the Robot Control tab.
save(s, io) == PersistSimpleView(s, io)

\* The Save button of the Code Editor tab.
save_from_editor(s, io) ==
    IF s.mode = 0 THEN PersistSimpleView(s, io) ELSE save_full_view_file(s, io)

(***************************************************************************)
(* Triggers.  Every action is one whole handler: the user's input, the     *)
(* slot it fires and the slots that one fires in turn.  An exception that  *)
(* leaves a slot is not caught anywhere (no sys.excepthook is installed),  *)
(* so PyQt6 ends the program: no trigger is handled once raised holds.     *)
(***************************************************************************)
Commit(r, t, a) ==
    /\ params' = r.params
    /\ simple' = r.simple
    /\ full' = r.full
    /\ file' = r.file
    /\ other' = r.other
    /\ mode' = r.mode
    /\ curfile' = r.curfile
    /\ syncing' = r.syncing
    /\ raised' = r.raised
    /\ last' = [t |-> t, m |-> mode, a |-> a]

\* The user sets spin box p to v (a value of its range and precision):
\* valueChanged fires when the value changes.
FormChange(p, v) ==
    /\ ~raised
    /\ params[p] # v
    /\ Commit(sync_simple_view_from_spinboxes([Cur EXCEPT !.params[p] = v]), "form", 0)

\* The user types in the Simple View editor, leaving the text newtext.
SimpleEdit(newtext) ==
    /\ ~raised
    /\ mode = 0
    /\ newtext # simple
    /\ Commit(on_simple_code_changed([Cur EXCEPT !.simple = newtext]), "edit", 0)

\* The user types in the Full View editor (no slot is connected to it).
FullEdit(newtext) ==
    /\ ~raised
    /\ mode = 1
    /\ curfile = "movement_pkg/movement.py"
    /\ newtext # full
    /\ Commit([Cur EXCEPT !.full = newtext], "raw_edit", 0)

\* _on_file_tree_clicked on a file item of the Full View tree.
FileTreeClick(rel, io) ==
    /\ ~raised
    /\ mode = 1
    /\ rel = "movement_pkg/movement.py" => file # NoFile
    /\ LET a == save_full_view_file(Cur, io)
       IN  Commit([a EXCEPT !.curfile = rel,
                            !.full = IF rel = "movement_pkg/movement.py"
                                     THEN a.file ELSE a.other], "open", 0)

Autosave(io) == ~raised /\ Commit(autosave(Cur, io), "autosave", 0)

Save(io) == ~raised /\ Commit(save(Cur, io), "save", 0)

SaveFromEditor(io) == ~raised /\ Commit(save_from_editor(Cur, io), "save_editor", 0)

ShowSimpleView(io) == ~raised /\ Commit(show_simple_view(Cur, io), "show_simple", 0)

ShowFullView(io) == ~raised /\ Commit(show_full_view(Cur, io), "show_full", 0)

\* A function button of the panel is dropped on line t of the Simple View.
Drop(t, snippet) ==
    /\ ~raised
    /\ mode = 0
    /\ Commit(dropEvent(Cur, t, snippet), "drop", t)

(***************************************************************************)
(* Texts the user and the project supply                                   *)
(***************************************************************************)
Txt010 == <<"0", ".", "1", "0">>

Txt030 == <<"0", ".", "3", "0">>

Txt077 == <<"0", ".", "7", "7">>

\* The text after the separator replaced by logic (a '\n' ends the text).
WithLogic(text, logic) ==
    LET sep == FirstOf({i \in 1..Len(text) : text[i].k = "sep"})
    IN  IF sep = 0 THEN text ELSE SubSeq(text, 1, sep) \o logic \o <<Blank>>

\* The number of the first assignment of p replaced by the characters v.
WithValue(text, p, v) ==
    LET i == FirstOf({j \in 1..Len(text) : text[j].k = "asg" /\ text[j].p = p})
    IN  IF i = 0 THEN text ELSE [text EXCEPT ![i].v = v]

\* The text without its line i.
WithoutLine(text, i) ==
    IF i = 0 THEN text
    ELSE SubSeq(text, 1, i - 1) \o SubSeq(text, i + 1, Len(text))

\* A line of spaces typed in front of the end marker line (once).
WithSpaceLine(text) ==
    LET e == FirstOf({i \in 1..Len(text) : text[i].k = "mend"})
    IN  IF e <= 1 \/ text[e - 1] = Ws THEN text
        ELSE SubSeq(text, 1, e - 1) \o <<Ws>> \o SubSeq(text, e, Len(text))

CustomLogic == << T("        self.stop()  # stop robot") >>

LogicWithAssignment ==
    << Asg("forward_speed", Txt010, "usr"), T("        self.move(self.forward_speed)") >>

\* A movement.py: the __init__ assignments, then control_loop with the
\* region between the markers.
ArtifactHead ==
    << T("class Movement(Robot):"),
       Asg("forward_speed", Txt030, "usr"),
       Asg("colour_detection", <<"Green">>, "usr"),
       DefLine >>

ArtifactTail == << T("        self.publish()"), Blank >>

ArtifactStd ==
    ArtifactHead \o <<MarkerStart, T("        self.spin()"), MarkerEnd>> \o ArtifactTail

\* No marker at all.
ArtifactPlain == ArtifactHead \o << T("        self.spin()") >> \o ArtifactTail

\* The end marker before the start marker.
ArtifactReversed ==
    ArtifactHead \o <<MarkerEnd, T("        self.spin()"), MarkerStart>> \o ArtifactTail

\* No assignment before the markers, one between them.
ArtifactBare ==
    << T("class Movement(Robot):"), DefLine, MarkerStart,
       Asg("forward_speed", Txt010, "usr"), MarkerEnd, Blank >>

InitFiles == {NoFile, ArtifactStd, ArtifactPlain, ArtifactReversed, ArtifactBare}

\* codebotair.py, the first file of the Full View tree.
OtherText == << T("#!/usr/bin/env python3"), Blank >>

\* Texts a user's edit of the Simple View leaves.
SimpleEdits(text) ==
    { WithLogic(text, CustomLogic),
      WithLogic(text, LogicWithAssignment),
      WithLogic(text, <<>>),
      <<Blank>> }

\* Texts a user's edit of movement.py in the Full View leaves.
FullEdits(text) ==
    { WithValue(text, "forward_speed", Txt077),
      WithoutLine(text, FindMarkerEnd(text)),
      WithSpaceLine(text) }

FormVals == {10, 40}

\* A bound of the model: the artifact is not persisted to beyond this many lines
\* (with the end marker before the start marker every splice lengthens it).
MaxFileLines == 14

NoFailure == {}

(***************************************************************************)
(* The specification: construction, then any sequence of triggers          *)
(***************************************************************************)
\* After __init__: the parameter widgets hold their defaults, _load_file_tree
\* opened codebotair.py in the Full View and _load_simple_view_from_movement_py
\* filled the Simple View; the stacked widget shows the Simple View.
Constructed(f) ==
    load_simple_view_from_movement_py(
        [ params |-> DefaultParams, simple |-> <<Blank>>, full |-> OtherText,
          file |-> f, other |-> OtherText, mode |-> 0,
          curfile |-> "codebotair.py", syncing |-> FALSE, raised |-> FALSE ])

Init ==
    \E f \in InitFiles :
        /\ params = Constructed(f).params
        /\ simple = Constructed(f).simple
        /\ full = Constructed(f).full
        /\ file = f
        /\ other = Constructed(f).other
        /\ mode = 0
        /\ curfile = "codebotair.py"
        /\ syncing = FALSE
        /\ raised = FALSE
        /\ last = [t |-> "init", m |-> 0, a |-> 0]

Next ==
    \/ \E v \in FormVals : FormChange("forward_speed", v)
    \/ \E t \in SimpleEdits(simple) : SimpleEdit(t)
    \/ \E t \in FullEdits(full) : FullEdit(t)
    \/ \E rel \in {"movement_pkg/movement.py", "codebotair.py"} :
          FileTreeClick(rel, NoFailure)
    \/ Len(file) <= MaxFileLines /\ Autosave(NoFailure)
    \/ Len(file) <= MaxFileLines /\ Save(NoFailure)
    \/ Len(file) <= MaxFileLines /\ SaveFromEditor(NoFailure)
    \/ ShowSimpleView(NoFailure)
    \/ Len(file) <= MaxFileLines /\ ShowFullView(NoFailure)

Spec == Init /\ [][Next]_vars

(***************************************************************************)
(* SpecSync: the form and the Simple View text, parameter by parameter     *)
(***************************************************************************)
Txt123 == <<"1", ".", "2", ".", "3">>

TxtDot == <<".">>

Txt500 == <<"5", ".", "0", "0">>

Txt03 == <<"0", ".", "3">>

Txt900 == <<"9", "0", ".", "0">>

\* Numbers a user types over a value: malformed, out of the range of the
\* speeds, short of the generated precision.
NumTexts == {Txt123, TxtDot, Txt500, Txt03}

\* Strings a user types between the quotes of the colour: an item of the
\* combo box, another word, nothing.
ColourTexts == {<<"Blue">>, <<"Pink">>, <<>>}

AllParams == NumericParams \cup {"colour_detection"}

\* The text movement.py assigns to parameter p.
ArtifactValue(p) ==
    IF p = "colour_detection" THEN <<"Green">>
    ELSE IF Decimals(p) = 1 THEN Txt900 ELSE Txt010

AssignAll == [i \in 1..7 |-> Asg(ParamOrder[i], ArtifactValue(ParamOrder[i]), "usr")]

\* A movement.py that assigns every parameter in __init__ and again between
\* the markers.
ArtifactAll ==
    << T("class Movement(Robot):") >> \o AssignAll
    \o << DefLine, MarkerStart >> \o AssignAll
    \o << MarkerEnd >> \o ArtifactTail

\* Values set in the form: the upper end of the range and an inner value.
SyncFormVals(p) == {MaxVal(p), 40}

\* Values of the parameter sets whose generated text is pasted.
SampleVals(p) == {MinVal(p), MaxVal(p), 40, 123}

\* Parameter sets that differ from the constructed one in one parameter.
SampleParams ==
    {DefaultParams}
    \cup UNION { {[DefaultParams EXCEPT ![p] = v] : v \in SampleVals(p)} :
                 p \in NumericParams }
    \cup {[DefaultParams EXCEPT !.colour_detection = c] : c \in Colours}

\* The first assignment of p in the text, 0 when there is none.
FirstAsg(text, p) ==
    FirstOf({j \in 1..Len(text) : text[j].k = "asg" /\ text[j].p = p})

\* The assignment lines of the constructed state: the generated header line
\* of each parameter and the line movement.py holds for it.
ConstructedHdr == [p \in AllParams |-> Asg(p, FormatParam(DefaultParams, p), "hdr")]

ConstructedUsr == [p \in AllParams |-> Asg(p, ArtifactValue(p), "usr")]

\* The parameters that left their constructed state: the value differs, the
\* generated assignment line is gone, or an assignment of the parameter reads
\* another text than the constructed ones.
Moved(P, text) ==
    {p \in AllParams :
        \/ P[p] # DefaultParams[p]
        \/ ~\E j \in 1..Len(text) : text[j] = ConstructedHdr[p]
        \/ \E j \in 1..Len(text) :
              /\ text[j].k = "asg" /\ text[j].p = p
              /\ text[j] # ConstructedHdr[p]
              /\ text[j] # ConstructedUsr[p]}

\* A bound of the model: at most this many parameters are away from their
\* constructed state at a time.
MaxMoved == 1

\* The parameters that may leave their constructed state next.
Movable ==
    LET M == Moved(params, simple)
    IN  IF Cardinality(M) < MaxMoved THEN AllParams ELSE M

InitSync ==
    /\ params = Constructed(ArtifactAll).params
    /\ simple = Constructed(ArtifactAll).simple
    /\ full = Constructed(ArtifactAll).full
    /\ file = ArtifactAll
    /\ other = Constructed(ArtifactAll).other
    /\ mode = 0
    /\ curfile = "codebotair.py"
    /\ syncing = FALSE
    /\ raised = FALSE
    /\ last = [t |-> "init", m |-> 0, a |-> 0]

NextSync ==
    \/ \E p \in Movable \cap NumericParams : \E v \in SyncFormVals(p) :
          FormChange(p, v)
    \/ \E c \in Colours :
          "colour_detection" \in Movable /\ FormChange("colour_detection", c)
    \/ \E p \in Movable \cap NumericParams : \E t \in NumTexts :
          SimpleEdit(WithValue(simple, p, t))
    \/ \E c \in ColourTexts :
          "colour_detection" \in Movable
              /\ SimpleEdit(WithValue(simple, "colour_detection", c))
    \/ \E p \in Movable : SimpleEdit(WithoutLine(simple, FirstAsg(simple, p)))
    \/ \E P \in SampleParams :
          /\ \A p \in AllParams : P[p] # DefaultParams[p] => p \in Movable
          /\ SimpleEdit(generate_simple_code(P))

SpecSync == InitSync /\ [][NextSync]_vars

(***************************************************************************)
(* SpecPaste: edits of the Simple View that change two assignments at once *)
(* (a paste, a replace-all), lines deleted, and the form                   *)
(***************************************************************************)
PasteParams == {"forward_speed", "backward_speed", "turn_cw_deg"}

PasteTexts == {Txt123, Txt03, Txt500}

NextPaste ==
    \/ \E p \in PasteParams : \E q \in PasteParams \ {p} :
          \E u \in PasteTexts : \E w \in PasteTexts :
             SimpleEdit(WithValue(WithValue(simple, p, u), q, w))
    \/ \E p \in PasteParams : SimpleEdit(WithoutLine(simple, FirstAsg(simple, p)))
    \/ \E p \in PasteParams : FormChange(p, 40)

SpecPaste == InitSync /\ [][NextPaste]_vars

(***************************************************************************)
(* SpecGuard: drops on the Simple View and edits that move the sentinel    *)
(***************************************************************************)
SnippetStop == << T("        self.stop()  # stop robot") >>

SnippetObstacle ==
    << T("        if self.obstacle_in_front():  # check obstacle"),
       T("            pass  # <- edit action") >>

Snippets == {SnippetStop, SnippetObstacle}

NoteLine == T("# my robot")

\* A bound of the model: no line is added to a Simple View text of this length.
MaxDocLines == 26

\* Edits that move or remove the line of 'def control_loop'.
GuardEdits(text) ==
    {IF text[1] = NoteLine THEN Tail(text)
     ELSE IF Len(text) < MaxDocLines THEN <<NoteLine>> \o text
     ELSE text}
    \cup {WithoutLine(text, logic_start_line(text))}

InitGuard ==
    /\ params = Constructed(NoFile).params
    /\ simple = Constructed(NoFile).simple
    /\ full = Constructed(NoFile).full
    /\ file = NoFile
    /\ other = Constructed(NoFile).other
    /\ mode = 0
    /\ curfile = "codebotair.py"
    /\ syncing = FALSE
    /\ raised = FALSE
    /\ last = [t |-> "init", m |-> 0, a |-> 0]

NextGuard ==
    \/ \E t \in 1..Len(simple) : \E sn \in Snippets :
          Len(simple) + Len(sn) <= MaxDocLines /\ Drop(t, sn)
    \/ \E t \in GuardEdits(simple) : SimpleEdit(t)

SpecGuard == InitGuard /\ [][NextGuard]_vars

(***************************************************************************)
(* SpecFail: the triggers of Spec, without movement.py or with one that    *)
(* holds the markers, where any write of a handler may fail (disk full,    *)
(* file read-only)                                                         *)
(***************************************************************************)
\* The writes that fail in one handler: none, the first, or the second.
Failures == {{}, {1}, {2}}

FailFiles == {NoFile, ArtifactStd}

InitFail ==
    \E f \in FailFiles :
        /\ params = Constructed(f).params
        /\ simple = Constructed(f).simple
        /\ full = Constructed(f).full
        /\ file = f
        /\ other = Constructed(f).other
        /\ mode = 0
        /\ curfile = "codebotair.py"
        /\ syncing = FALSE
        /\ raised = FALSE
        /\ last = [t |-> "init", m |-> 0, a |-> 0]

NextFail ==
    \/ \E v \in FormVals : FormChange("forward_speed", v)
    \/ \E t \in SimpleEdits(simple) : SimpleEdit(t)
    \/ \E t \in FullEdits(full) : FullEdit(t)
    \/ \E rel \in {"movement_pkg/movement.py", "codebotair.py"} :
          \E io \in Failures : FileTreeClick(rel, io)
    \/ \E io \in Failures : Len(file) <= MaxFileLines /\ Autosave(io)
    \/ \E io \in Failures : Len(file) <= MaxFileLines /\ Save(io)
    \/ \E io \in Failures : Len(file) <= MaxFileLines /\ SaveFromEditor(io)
    \/ \E io \in Failures : ShowSimpleView(io)
    \/ \E io \in Failures : Len(file) <= MaxFileLines /\ ShowFullView(io)

SpecFail == InitFail /\ [][NextFail]_vars

(***************************************************************************)
(* SpecMarkers: the Simple View alone, on a movement.py with one pair of   *)
(* markers: edits of the logic, among them logic that quotes a marker line *)
(* (pasted from movement.py), the form, and the persistence triggers       *)
(***************************************************************************)
LogicWithEndMarker ==
    << T("        self.stop()  # stop robot"), MarkerEnd,
       T("        self.move(self.forward_speed)") >>

LogicWithStartMarker ==
    << MarkerStart, T("        self.move(self.forward_speed)") >>

MarkerEdits(text) ==
    SimpleEdits(text)
    \cup { WithLogic(text, LogicWithEndMarker), WithLogic(text, LogicWithStartMarker) }

InitMarkers ==
    /\ params = Constructed(ArtifactStd).params
    /\ simple = Constructed(ArtifactStd).simple
    /\ full = Constructed(ArtifactStd).full
    /\ file = ArtifactStd
    /\ other = Constructed(ArtifactStd).other
    /\ mode = 0
    /\ curfile = "codebotair.py"
    /\ syncing = FALSE
    /\ raised = FALSE
    /\ last = [t |-> "init", m |-> 0, a |-> 0]

NextMarkers ==
    \/ \E v \in FormVals : FormChange("forward_speed", v)
    \/ \E c \in Colours : FormChange("colour_detection", c)
    \/ \E t \in MarkerEdits(simple) : SimpleEdit(t)
    \/ Len(file) <= MaxFileLines /\ Autosave(NoFailure)
    \/ Len(file) <= MaxFileLines /\ Save(NoFailure)
    \/ Len(file) <= MaxFileLines /\ SaveFromEditor(NoFailure)

SpecMarkers == InitMarkers /\ [][NextMarkers]_vars

(***************************************************************************)
(* SpecFlag: the handlers that set _syncing, on a movement.py with the     *)
(* markers: the form, edits of the Simple View (logic, an emptied text,    *)
(* numbers that float() rejects or that are out of range) and the load     *)
(***************************************************************************)
FlagParams == {"forward_speed", "turn_cw_deg"}

NextFlag ==
    \/ \E v \in FormVals : FormChange("forward_speed", v)
    \/ \E c \in Colours : FormChange("colour_detection", c)
    \/ \E t \in SimpleEdits(simple) : SimpleEdit(t)
    \/ \E p \in FlagParams : \E t \in NumTexts : SimpleEdit(WithValue(simple, p, t))
    \/ ShowSimpleView(NoFailure)

SpecFlag == InitMarkers /\ [][NextFlag]_vars

(***************************************************************************)
(* Vocabulary of the properties                                            *)
(***************************************************************************)
\* The logic of the structured view: the text after the separator, trailing
\* blank lines stripped (None when there is none).
LogicOf(text) == extract_simple_view_logic(text)

\* The lines strictly between the markers of an artifact, <<>> without them.
ArtifactRegion(f) ==
    IF f = NoFile \/ SearchMarkers(f) = 0 THEN <<>>
    ELSE LET i == SearchMarkers(f)
             j == FirstOf({n \in (i + 1)..Len(f) : f[n].k = "mend"})
         IN  SubSeq(f, i + 1, j - 1)

\* The step is a Simple View persistence trigger: autosave, Save, or the
\* switch to the Full View, taken while the Simple View is shown.
SimplePersistStep ==
    /\ mode = 0
    /\ last'.t \in {"autosave", "save", "save_editor", "show_full"}

\* The artifact lacks the start marker or the end marker.
LacksMarker(f) == FindMarkerStart(f) = 0 \/ FindMarkerEnd(f) = 0

\* g is f with nothing changed but the characters of the first assignment of
\* each parameter, which read the value P holds.
OnlyFirstValuesRewritten(f, g, P) ==
    /\ Len(g) = Len(f)
    /\ \A i \in 1..Len(f) :
          \/ /\ g[i] = f[i]
             /\ \/ f[i].k # "asg"
                \/ \E j \in 1..(i - 1) : f[j].k = "asg" /\ f[j].p = f[i].p
                \/ f[i].v = FormatParam(P, f[i].p)
          \/ /\ f[i].k = "asg"
             /\ \A j \in 1..(i - 1) : ~(f[j].k = "asg" /\ f[j].p = f[i].p)
             /\ g[i] = [f[i] EXCEPT !.v = FormatParam(P, f[i].p)]

\* The matches of the replacement pattern of p in a text, in text order.
Occurrences(text, p) == {j \in 1..Len(text) : SubMatches(text[j], p)}

\* The artifact _write_params_to_movement_py leaves of artifact f when the
\* form holds the parameters P.
ArtifactAfterWrite(f, P) ==
    write_params_to_movement_py([Cur EXCEPT !.file = f, !.params = P], NoFailure).file

\* In text g the first occurrence of p in text f reads the value of P, and
\* every later occurrence of p reads what it read in f.
OnlyFirstRewritten(f, g, P, p) ==
    LET first == FirstOf(Occurrences(f, p))
    IN  /\ Len(g) = Len(f)
        /\ g[first] = [f[first] EXCEPT !.v = FormatParam(P, p)]
        /\ \A j \in Occurrences(f, p) \ {first} : g[j] = f[j]

\* The lines of a region r with the newlines at its end stripped (a line of
\* spaces is kept); the empty text is one empty line.
TrimmedNewlines(r) ==
    IF \A n \in 1..Len(r) : r[n].k = "blank" THEN <<Blank>>
    ELSE SubSeq(r, 1, CHOOSE n \in 1..Len(r) :
                         /\ r[n].k # "blank"
                         /\ \A q \in (n + 1)..Len(r) : r[q].k = "blank")

\* The texts an edit of SpecSync leaves in the editor when it starts from text.
SyncEditTexts(text) ==
    {WithValue(text, p, t) : p \in NumericParams, t \in NumTexts}
    \cup {WithValue(text, "colour_detection", c) : c \in ColourTexts}
    \cup {WithoutLine(text, FirstAsg(text, p)) : p \in AllParams}
    \cup {generate_simple_code(P) : P \in SampleParams}

\* All lines after the first separator line of a text (the whole text
\* without a separator).
AfterSeparator(text) ==
    LET sep == FirstOf({i \in 1..Len(text) : text[i].k = "sep"})
    IN  SubSeq(text, sep + 1, Len(text))

\* The text f with the value of the first match of each parameter reading
\* what P holds, every other line as it is.
FirstValuesRewritten(f, P) ==
    [i \in 1..Len(f) |->
        IF /\ f[i].k = "asg"
           /\ SubMatches(f[i], f[i].p)
           /\ \A j \in 1..(i - 1) : ~SubMatches(f[j], f[i].p)
        THEN [f[i] EXCEPT !.v = FormatParam(P, f[i].p)]
        ELSE f[i]]

\* Both markers are found in f: a start marker line ended by '\n', and an end
\* marker.
BothMarkers(f) ==
    /\ f # NoFile
    /\ \E i \in 1..(Len(f) - 1) : f[i].k = "mstart"
    /\ \E i \in 1..Len(f) : f[i].k = "mend"

\* The text holds the separator line '# === Movement Logic ==='.
HasSeparator(text) == \E i \in 1..Len(text) : text[i].k = "sep"

\* The user emptied the logic: the separator is there and nothing but blank
\* lines follows it.
LogicEmptied(text) == HasSeparator(text) /\ IsBlankText(AfterSeparator(text))

\* An assignment line shows the value P holds for its parameter: the same
\* number whatever its digits after the dot, the same colour.
ShowsValue(line, P) ==
    IF line.p = "colour_detection" THEN line.v = <<P[line.p]>>
    ELSE /\ FloatOk(line.v)
         /\ Mantissa(line.v, 0) * Pow10(Decimals(line.p))
               = P[line.p] * Pow10(FracDigits(line.v))

\* The first line of the text that holds 'def control_loop', 0 without one.
Boundary(text) ==
    IF \E i \in 1..Len(text) : text[i].k = "def"
    THEN CHOOSE i \in 1..Len(text) :
            /\ text[i].k = "def"
            /\ \A j \in 1..(i - 1) : text[j].k # "def"
    ELSE 0

\* The first match of the extraction pattern of p in a text, 0 without one.
FirstExt(text, p) == FirstOf({j \in 1..Len(text) : ExtMatches(text[j], p)})

\* The first assignment of numeric parameter p holds a text float() rejects.
Malformed(text, p) ==
    /\ p \in NumericParams
    /\ FirstExt(text, p) # 0
    /\ ~FloatOk(text[FirstExt(text, p)].v)

\* The replacement pattern of every parameter has a match in the text.
AllMatched(text) == \A p \in AllParams : Occurrences(text, p) # {}

\* The artifact holds exactly one start marker line and exactly one end
\* marker line, the start marker before the end marker.
OneMarkerPair(f) ==
    /\ Cardinality({i \in 1..Len(f) : f[i].k = "mstart"}) = 1
    /\ Cardinality({i \in 1..Len(f) : f[i].k = "mend"}) = 1
    /\ \E i \in 1..Len(f) : \E j \in (i + 1)..Len(f) :
          f[i].k = "mstart" /\ f[j].k = "mend"

\* Every parameter that the artifact f assigns holds in P the value of its
\* first assignment in f.
AgreesWith(f, P) ==
    \A p \in AllParams :
        FirstExt(f, p) # 0 => ShowsValue(f[FirstExt(f, p)], P)

(***************************************************************************)
(* C1: after any trigger, logic text that was in the structured view       *)
(* before it is still the logic of the structured view or is the logic     *)
(* region of the persisted artifact (an edit leaves the text the user      *)
(* typed); it is never replaced by the default template or by older        *)
(* persisted logic.                                                        *)
(***************************************************************************)
C1_LogicNeverDestroyed ==
    [][ /\ last'.t = "edit" => simple' \in SimpleEdits(simple)
        /\ (last'.t # "edit" /\ LogicOf(simple) # None) =>
              \/ LogicOf(simple') = LogicOf(simple)
              \/ DropTrailingBlank(ArtifactRegion(file')) = LogicOf(simple) ]_vars

(***************************************************************************)
(* C2: round trip through both views.  Once the Simple View with custom    *)
(* logic X was switched to the Full View, the logic region of the artifact *)
(* (movement.py being there) is X, and switching back with no edit in      *)
(* between leaves a structured document whose logic is X and whose header  *)
(* shows the parameter values.                                             *)
(***************************************************************************)
C2_RoundTrip ==
    [][ ( /\ last.t = "show_full"
          /\ last.m = 0
          /\ file # NoFile
          /\ LogicOf(simple) # None
          /\ LogicOf(simple) # DefaultLogic ) =>
            /\ DropTrailingBlank(ArtifactRegion(file)) = LogicOf(simple)
            /\ last'.t = "show_simple" =>
                  /\ LogicOf(simple') = LogicOf(simple)
                  /\ SubSeq(simple', 1, Len(HeaderLines(params))) = HeaderLines(params) ]_vars

(***************************************************************************)
(* C3: no-clobber.  A Simple View persistence trigger never alters the     *)
(* text between the markers of the artifact because of a parameter value:  *)
(* the region stays as it was or becomes the logic of the structured view. *)
(***************************************************************************)
C3_NoClobber ==
    [][ (SimplePersistStep /\ file # NoFile /\ SearchMarkers(file) # 0) =>
            \/ ArtifactRegion(file') = ArtifactRegion(file)
            \/ ArtifactRegion(file') = LogicOf(simple) ]_vars

C6_FallbackOnLoad ==
    [][ /\ (last'.t = "show_simple" /\ file' # NoFile /\ SearchMarkers(file') = 0) =>
              simple' = generate_simple_code(params')
        /\ (SimplePersistStep /\ file # NoFile /\ SearchMarkers(file) = 0) =>
              \/ Len(file') = Len(file)
              \/ file' = generate_simple_code(params) ]_vars

(***************************************************************************)
(* C4: single-occurrence replace.  When the assignment of a parameter      *)
(* occurs in the header and again later, a change in the form rewrites the *)
(* first occurrence in the structured document to the formatted value and  *)
(* leaves every later occurrence as it was, for each of the seven          *)
(* parameters; writing the parameters to the artifact does the same there. *)
(***************************************************************************)
C4_SingleOccurrence ==
    [][ last'.t = "form" =>
          \A p \in AllParams :
             /\ Cardinality(Occurrences(simple, p)) >= 2 =>
                   OnlyFirstRewritten(simple, simple', params', p)
             /\ Cardinality(Occurrences(file', p)) >= 2 =>
                   OnlyFirstRewritten(file', ArtifactAfterWrite(file', params'), params', p) ]_vars

\* Reached: the form set forward_speed to 0.40; the header assignment reads
\* 0.40 and the later one in the logic still reads 0.10.
C4_Witness ==
    /\ last.t = "form"
    /\ params.forward_speed = 40
    /\ \E i \in 1..Len(simple) : \E j \in (i + 1)..Len(simple) :
          /\ simple[i] = Asg("forward_speed", FormatNum("forward_speed", 40), "hdr")
          /\ simple[j] = Asg("forward_speed", Txt010, "usr")

(***************************************************************************)
(* C7: idempotence.  When the text of the structured view becomes the      *)
(* render of a parameter set P (values in range at their precision),       *)
(* extraction raises nothing and the render of the extracted parameters is *)
(* that same text.                                                         *)
(***************************************************************************)
C7_Idempotence ==
    [][ ( /\ last'.t = "edit"
          /\ \E P \in SampleParams : simple' = generate_simple_code(P) ) =>
            /\ ~raised'
            /\ generate_simple_code(params') = simple' ]_vars

\* Reached: the render of a parameter set with turn_cw_deg 12.3 was put into
\* the structured view and extracted.
C7_Witness ==
    /\ last.t = "edit"
    /\ params.turn_cw_deg = 123
    /\ simple = generate_simple_code(params)

(***************************************************************************)
(* C8: when no line of the structured document holds 'def control_loop',   *)
(* a drop at any line is rejected and leaves the document unchanged.       *)
(***************************************************************************)
C8_NoBoundaryNoDrop ==
    [][ (last'.t = "drop" /\ Boundary(simple) = 0) => simple' = simple ]_vars

(***************************************************************************)
(* C9: boundary enforcement.  With B the first line of the current         *)
(* structured document that holds 'def control_loop', a drop at line t is  *)
(* rejected for every t <= B and inserts the snippet at line t for every   *)
(* t > B; B is that of the text at the time of the drop.                   *)
(***************************************************************************)
C9_BoundaryEnforced ==
    [][ (last'.t = "drop" /\ Boundary(simple) # 0) =>
          IF last'.a <= Boundary(simple)
          THEN simple' = simple
          ELSE \E sn \in Snippets : simple' = InsertAt(simple, last'.a, sn) ]_vars

\* Reached: an edit moved the sentinel line down and a drop on the line
\* right after it put a snippet there.
C9_Witness ==
    /\ last.t = "drop"
    /\ simple[1] = NoteLine
    /\ Boundary(simple) # 0
    /\ last.a = Boundary(simple) + 1
    /\ \E sn \in Snippets :
          SubSeq(simple, last.a, last.a + Len(sn) - 1) = sn

(***************************************************************************)
(* C10: when the first assignment of a numeric parameter in the edited     *)
(* text holds an unparseable number, extraction raises nothing, that       *)
(* parameter keeps its value and every other parameter takes the value of  *)
(* its own first assignment.                                               *)
(***************************************************************************)
C10_MalformedIgnored ==
    [][ ( /\ last'.t = "edit"
          /\ \E p \in NumericParams : Malformed(simple', p) ) =>
            /\ ~raised'
            /\ \A p \in NumericParams :
                  /\ Malformed(simple', p) => params'[p] = params[p]
                  /\ (FirstExt(simple', p) # 0 /\ ~Malformed(simple', p)) =>
                        params'[p] = SetValue(p, simple'[FirstExt(simple', p)].v) ]_vars

(***************************************************************************)
(* C11: a write of the artifact that fails during a persistence trigger    *)
(* (autosave, Save, a mode switch, in either view) is suppressed: no error *)
(* leaves the handler, so the program goes on to the next trigger, and an  *)
(* autosave or Save leaves the documents and the parameters as they were.  *)
(***************************************************************************)
C11_WriteFailureSuppressed ==
    [][ last'.t \in {"autosave", "save", "save_editor", "show_full", "show_simple"} =>
          /\ ~raised'
          /\ last'.t \in {"autosave", "save", "save_editor"} =>
                /\ params' = params
                /\ simple' = simple
                /\ full' = full ]_vars

(***************************************************************************)
(* C12, as claimed: when movement.py does not exist, a load or persistence *)
(* trigger raises no error and a load into the structured view sets the    *)
(* structured document to the full default render of the parameters,       *)
(* whatever the view held before.                                          *)
(***************************************************************************)
C12_FreshProject ==
    [][ ( /\ file = NoFile
          /\ last'.t \in {"autosave", "save", "save_editor", "show_full", "show_simple"} ) =>
            /\ ~raised'
            /\ last'.t = "show_simple" => simple' = generate_simple_code(params') ]_vars

\* C12 as amended: when movement.py does not exist, a load or persistence
\* trigger raises no error and creates no file, and a load into the structured
\* view sets a blank structured document to the full default render of the
\* parameters and leaves any other text as it is.
C12_MissingArtifact ==
    [][ ( /\ file = NoFile
          /\ last'.t \in {"autosave", "save", "save_editor", "show_full", "show_simple"} ) =>
            /\ ~raised'
            /\ file' = NoFile
            /\ params' = params
            /\ last'.t = "show_simple" =>
                  simple' = IF IsBlankText(simple)
                            THEN generate_simple_code(params)
                            ELSE simple ]_vars

\* Reached: without movement.py the Simple View button was pressed over an
\* edited text, which stayed.
C12_Witness ==
    /\ last.t = "show_simple"
    /\ file = NoFile
    /\ ~raised
    /\ LogicOf(simple) = CustomLogic

C14_StructuredToRaw ==
    [][ ( /\ last'.t = "show_full"
          /\ mode = 0
          /\ curfile = "movement_pkg/movement.py"
          /\ file # NoFile ) =>
            /\ full' = file'
            /\ (SearchMarkers(file) # 0 /\ FindMarkerStart(file) < FindMarkerEnd(file)
                  /\ LogicOf(simple) # None) =>
                  DropTrailingBlank(ArtifactRegion(file')) = LogicOf(simple) ]_vars

(***************************************************************************)
(* C15: one persistence path.  From any state, the autosave, the Save      *)
(* button of the Robot Control tab and the Save button of the Code Editor  *)
(* tab leave the same artifact; in the Full View with movement.py open     *)
(* that artifact is the Full View's text.                                  *)
(***************************************************************************)
C15_OnePersistencePath ==
    /\ save(Cur, NoFailure).file = autosave(Cur, NoFailure).file
    /\ save_from_editor(Cur, NoFailure).file = autosave(Cur, NoFailure).file
    /\ (mode = 1 /\ curfile = "movement_pkg/movement.py") =>
          autosave(Cur, NoFailure).file = full

(***************************************************************************)
(* C16: extraction takes, for each parameter, the first match of its       *)
(* pattern in the edited text (a number float() reads, a colour of the     *)
(* combo box); a parameter whose pattern has no match keeps the value it   *)
(* had, whatever is matched for the other parameters.                      *)
(***************************************************************************)
C16_FirstMatchOrRetained ==
    [][ last'.t = "edit" =>
          \A p \in AllParams :
             IF FirstExt(simple', p) = 0
             THEN params'[p] = params[p]
             ELSE /\ (p \in NumericParams /\ FloatOk(simple'[FirstExt(simple', p)].v)) =>
                        params'[p] = SetValue(p, simple'[FirstExt(simple', p)].v)
                  /\ (p = "colour_detection"
                        /\ simple'[FirstExt(simple', p)].v[1] \in Colours) =>
                        params'[p] = simple'[FirstExt(simple', p)].v[1] ]_vars

(***************************************************************************)
(* C17: extraction stores a matched colour only when it is one of Red,     *)
(* Blue, Yellow, Green (and then stores it, when the pass is not ended by  *)
(* a number); a matched string outside that set leaves colour_detection    *)
(* unchanged, and no error comes from it: when the pass raises, the text   *)
(* holds an unparseable number.                                            *)
(***************************************************************************)
C17_ColourInSet ==
    [][ (last'.t = "edit" /\ FirstExt(simple', "colour_detection") # 0) =>
          LET c == simple'[FirstExt(simple', "colour_detection")].v[1]
          IN  /\ params'.colour_detection # params.colour_detection =>
                    (c \in Colours /\ params'.colour_detection = c)
              /\ (c \in Colours /\ ~raised') => params'.colour_detection = c
              /\ c \notin Colours =>
                    /\ params'.colour_detection = params.colour_detection
                    /\ raised' => \E p \in NumericParams : Malformed(simple', p) ]_vars

\* Reached: the form holds Blue and the text was edited to a colour that is
\* not in the combo box; Blue stayed.
C17_Witness ==
    /\ last.t = "edit"
    /\ ~raised
    /\ params.colour_detection = "Blue"
    /\ FirstExt(simple, "colour_detection") # 0
    /\ simple[FirstExt(simple, "colour_detection")].v = <<"Pink">>

(***************************************************************************)
(* C18: the reentrancy guard breaks the update cycle in both directions.   *)
(* A change in the form changes that one parameter, rewrites the first     *)
(* assignments of the structured document once and runs no extraction (no  *)
(* other value changes, nothing is raised); an edit of the text runs one   *)
(* extraction pass and the value-changed slots it fires rewrite nothing:   *)
(* the text stays as typed.  Every handler ends with the flag cleared.     *)
(***************************************************************************)
C18_GuardBreaksCycle ==
    [][ /\ last'.t = "form" =>
              /\ Cardinality({p \in AllParams : params'[p] # params[p]}) = 1
              /\ OnlyFirstValuesRewritten(simple, simple', params')
              /\ ~raised'
        /\ last'.t = "edit" => simple' \in SyncEditTexts(simple)
        /\ ~syncing' ]_vars

\* Reached: 5.00 was typed for forward_speed, the spin box took 2.00 and fired
\* valueChanged, and the text still reads 5.00.
C18_Witness ==
    /\ last.t = "edit"
    /\ params.forward_speed = 200
    /\ FirstExt(simple, "forward_speed") # 0
    /\ simple[FirstExt(simple, "forward_speed")].v = Txt500

(***************************************************************************)
(* C19: a change in the form while the Simple View is shown leaves all     *)
(* text after the separator line '# === Movement Logic ===' as it was,     *)
(* whatever the structured document holds.                                 *)
(***************************************************************************)
C19_LogicUntouchedByForm ==
    [][ (last'.t = "form" /\ mode = 0) =>
          AfterSeparator(simple') = AfterSeparator(simple) ]_vars

C22_DocumentIsRender ==
    (~raised /\ ~IsBlankText(simple)) =>
        LET H == HeaderLines(params)
        IN  /\ Len(simple) >= Len(H)
            /\ \A i \in 1..Len(H) :
                  IF H[i].k = "asg"
                  THEN /\ simple[i].k = "asg"
                       /\ simple[i].p = H[i].p
                       /\ ShowsValue(simple[i], params)
                  ELSE simple[i] = H[i]

(***************************************************************************)
(* C23: after a switch from the Full View to the Simple View every         *)
(* parameter holds the value of its first assignment in movement.py, so    *)
(* that a value edited in the Full View is not reverted by the next Simple *)
(* View persistence trigger.  Checked on the switches that start from an   *)
(* artifact in agreement with the form, so that what disagrees afterwards  *)
(* is what the user saved from the Full View.                              *)
(***************************************************************************)
C23_LoadAgreesWithArtifact ==
    [][ (/\ mode = 1
         /\ last'.t = "show_simple"
         /\ file' # NoFile
         /\ AgreesWith(file, params)) => AgreesWith(file', params') ]_vars

(***************************************************************************)
(* C24: a drop that the boundary check refuses (there is a line holding    *)
(* 'def control_loop' and the drop line is not after the first such line)  *)
(* changes neither the structured document, nor the parameters, nor the    *)
(* persisted artifact, and raises no error.                                *)
(***************************************************************************)
C24_RefusedDropIgnored ==
    [][ (/\ last'.t = "drop"
         /\ Boundary(simple) # 0
         /\ last'.a <= Boundary(simple)) =>
            /\ simple' = simple
            /\ params' = params
            /\ file' = file
            /\ ~raised' ]_vars

\* Reached: a drop on the sentinel line itself, after snippets had been
\* dropped into the logic, was refused.
C24_Witness ==
    /\ last.t = "drop"
    /\ Boundary(simple) # 0
    /\ last.a = Boundary(simple)
    /\ Len(simple) > Len(generate_simple_code(params))
    /\ ~raised

(***************************************************************************)
(* C25: in every reachable state every parameter holds a value of its      *)
(* domain: the numeric ones a value between the ends of the range of their *)
(* spin box, the colour one of the four items of the combo box; also after *)
(* an extraction from a text that assigns a number out of the range.       *)
(***************************************************************************)
C25_ParamsInDomain ==
    /\ DOMAIN params = AllParams
    /\ \A p \in NumericParams : params[p] \in MinVal(p)..MaxVal(p)
    /\ params.colour_detection \in Colours

\* Reached: the user typed 5.00, beyond the range, over the forward speed and
\* the extractor ran: the parameter holds the upper end of the range.
C25_Witness ==
    /\ last.t = "edit"
    /\ ~raised
    /\ FirstExt(simple, "forward_speed") # 0
    /\ simple[FirstExt(simple, "forward_speed")].v = Txt500
    /\ params.forward_speed = MaxVal("forward_speed")

(***************************************************************************)
(* C26: a Simple View persistence trigger (autosave or Save) that follows  *)
(* another one with nothing in between leaves movement.py as the first     *)
(* left it; and in a state that a load into the Simple View left, a        *)
(* persistence trigger followed by another load gives the same Simple View *)
(* text.                                                                   *)
(***************************************************************************)
C26_PersistIdempotent ==
    /\ [][ (/\ last.t \in {"autosave", "save", "save_editor"}
            /\ last.m = 0
            /\ mode = 0
            /\ last'.t \in {"autosave", "save", "save_editor"}) =>
               file' = file ]_vars
    /\ []( (last.t = "show_simple" /\ ~raised) =>
              load_simple_view_from_movement_py(autosave(Cur, NoFailure)).simple
                  = simple )

(***************************************************************************)
(* C27: substitute-then-extract is the identity on the parameters.  When   *)
(* the replacement pattern of every parameter has a match in the Simple    *)
(* View text, the text that a form change leaves (the in-place             *)
(* substitution of the new parameter values) is one from which the         *)
(* extractor, whatever the form held before, reads exactly those values,   *)
(* without raising.                                                        *)
(***************************************************************************)
C27_SubstituteThenExtract ==
    [][ (last'.t = "form" /\ AllMatched(simple)) =>
          /\ ExtractFrom(simple', params, 1) = [params |-> params', raised |-> FALSE]
          /\ ExtractFrom(simple', DefaultParams, 1).params = params' ]_vars

\* Reached: the user deleted the header line of the forward speed, so that
\* the first match is the assignment in the logic, and then set 0.40 in the
\* form: that assignment reads 0.40.
C27_Witness ==
    /\ last.t = "form"
    /\ AllMatched(simple)
    /\ params.forward_speed = 40
    /\ simple[FirstExt(simple, "forward_speed")] =
          Asg("forward_speed", FormatNum("forward_speed", 40), "usr")

(***************************************************************************)
(* C28: from a movement.py with exactly one start marker followed by       *)
(* exactly one end marker, after any sequence of Simple View edits, form   *)
(* changes and Simple View persistence triggers movement.py still holds    *)
(* exactly one start marker followed by exactly one end marker.            *)
(***************************************************************************)
C28_MarkersPreserved == OneMarkerPair(file)

(***************************************************************************)
(* C29: the flag _syncing is clear whenever no trigger is being handled:   *)
(* the extractor, the in-place substitution and the load reset it on every *)
(* way out, the early return on an empty text and an exception raised      *)
(* during the extraction included.                                         *)
(***************************************************************************)
C29_FlagClear == syncing = FALSE

\* Reached: float() raised during the extraction of an edit, and the flag is
\* clear.
C29_Witness ==
    /\ last.t = "edit"
    /\ raised
    /\ Malformed(simple, "forward_speed")
    /\ ~syncing

(***************************************************************************)
(* C30: persistence reads the state in memory and leaves it alone.  An     *)
(* autosave or a Save while the Simple View is shown changes neither the   *)
(* parameters, nor the Simple View text, nor the mode; an autosave while   *)
(* the Full View is shown changes neither the Full View text nor the       *)
(* parameters, and writes no file when no file is open in the Full View.   *)
(***************************************************************************)
C30_PersistenceReadOnly ==
    [][ /\ (mode = 0 /\ last'.t \in {"autosave", "save", "save_editor"}) =>
              /\ params' = params
              /\ simple' = simple
              /\ mode' = mode
        /\ (mode = 1 /\ last'.t = "autosave") =>
              /\ full' = full
              /\ params' = params
              /\ mode' = mode
              /\ curfile = "none" => (file' = file /\ other' = other) ]_vars

\* Reached: an autosave in the Simple View wrote the user's logic, which the
\* view still shows, into movement.py, whose region held another logic
\* before.
C30_Witness ==
    /\ last.t = "autosave"
    /\ last.m = 0
    /\ mode = 0
    /\ LogicOf(simple) = LogicWithAssignment
    /\ ArtifactRegion(file) = LogicWithAssignment
    /\ params.forward_speed = 40

====
